---- MODULE Spec2Model ----
(***************************************************************************)
(* A model of the data pipeline of lumina-data-flow:                       *)
(*   src/utils/dataParser.ts      extractNumericalData, calculateStatistics,*)
(*                                prepare3DData                             *)
(*   src/hooks/useDataProcessing.ts  the useDataProcessing hook (lines     *)
(*                                1-278): processData, filteredData,        *)
(*                                updateRawData, the filter setters and the *)
(*                                processing effect; the DataCleanerService *)
(*                                of lines 364-751.                         *)
(*   src/components/FileUpload.tsx  processFile, handleCancelCleaning.      *)
(*                                                                         *)
(* A cell is a record [t, n, s]: t is the JavaScript type of the cell      *)
(* ("num", "str", "null", "undef"), n the number of a "num" cell (a        *)
(* fraction, see below), s the characters of a "str" cell.  A row maps     *)
(* every column name to a cell;                                            *)
(* an "undef" cell is a key the row object does not have.  A dataset is a  *)
(* sequence of rows.                                                       *)
(***************************************************************************)
EXTENDS Integers, Sequences, FiniteSets, TLC

VARIABLES
    rawData,            \* useState: the rows last stored
    fileName,           \* useState: the label last stored
    statistics,         \* useState: Statistic[]
    visualizationData,  \* useState: {points, axisLabels}
    isProcessing,       \* useState: the processing flag
    filters,            \* useState: FilterOptions[]
    availableColumns,   \* useState: string[]
    effectPending,      \* the processing effect is queued: a commit changed one of its dependencies
    timers,             \* the rawData captured by each setTimeout callback not yet run, oldest first
    toasts,             \* the notifications the last step raised
    outcome,            \* how the last step ended (which branch of the code it took)
    parserCall,         \* a direct call of a dataParser function: [fn, data, result]
    file,               \* FileUpload useState: the file chosen, [chosen, name, headers, lines]
    parsedData,         \* FileUpload useState: the row objects processFile built
    showDataCleaner,    \* FileUpload useState: the cleaning dialog is shown
    onDataProcessed,    \* the calls of the onDataProcessed prop: [data, fileName] each
    dataCleaner,        \* the DataCleanerService singleton: [isProcessing, progress]
    cleanCalls          \* the cleanData calls made on the singleton, in the order made

hookVars == <<rawData, fileName, statistics, visualizationData, isProcessing, filters,
              availableColumns, effectPending, timers, toasts, outcome>>
cleanerVars == <<file, parsedData, showDataCleaner, onDataProcessed, dataCleaner, cleanCalls>>
vars == <<hookVars, parserCall, cleanerVars>>

----------------------------------------------------------------------------
(* Bounds of the model. *)

\* setTimeout callbacks that may be waiting at once
MaxTimers == 2
\* cleanData calls made on the dataCleaner singleton
MaxCalls == 2
\* Math.random() is one of 0/NoiseLevels .. (NoiseLevels-1)/NoiseLevels
NoiseLevels == 2
\* rows of a dataset handed to a dataParser function directly
MaxRows == 3

(* Thresholds of the source.  The source's values are 50000 (large-dataset *)
(* path of the effect), 10000 (its first batch) and 10000 (index path of   *)
(* the filter).  The code reads them only in rawData.length > threshold    *)
(* and rawData.slice(0, batchSize), so the model keeps their order         *)
(* (batch < large threshold) and scales them to dataset sizes TLC can      *)
(* enumerate on both sides of each threshold.                              *)
LargeDatasetThreshold == 3
BatchSize == 2
IndexThreshold == 2

----------------------------------------------------------------------------
(* Cells and the JavaScript conversions the code applies to them. *)

Columns == <<"a", "b", "c", "d">>
ColumnSet == {Columns[i] : i \in 1..Len(Columns)}

(* A JavaScript number is the fraction [num, den] in lowest terms: den > 0  *)
(* for a finite number, 1/0 and -1/0 for Infinity and -Infinity, 0/0 for   *)
(* NaN.  The arithmetic is that of IEEE 754 without rounding (and without  *)
(* a negative zero).                                                       *)
NaN == [num |-> 0, den |-> 0]
Infinity == [num |-> 1, den |-> 0]
Finite(n) == [num |-> n, den |-> 1]
IsNaN(x) == x.den = 0 /\ x.num = 0
IsInfinite(x) == x.den = 0 /\ x.num # 0
Sign(x) == IF x.num > 0 THEN 1 ELSE IF x.num < 0 THEN -1 ELSE 0

\* the cells: a number x, the integer n, a string of characters s, null, an absent key
Number(x) == [t |-> "num", n |-> x, s |-> <<>>]
Num(n) == Number(Finite(n))
Str(s) == [t |-> "str", n |-> Finite(0), s |-> s]
Null == [t |-> "null", n |-> Finite(0), s |-> <<>>]
Undef == [t |-> "undef", n |-> Finite(0), s |-> <<>>]

RECURSIVE Gcd(_, _)
Gcd(a, b) == IF b = 0 THEN a ELSE Gcd(b, a % b)

\* the finite number num/den, den > 0
Fraction(num, den) ==
    LET g == Gcd(IF num < 0 THEN -num ELSE num, den)
    IN [num |-> num \div g, den |-> den \div g]

(* A value the code computes once (an operand, a const, an array built by  *)
(* map) is bound once here as well: v \in {expression} names the value of  *)
(* the expression, and CHOOSE r \in {e(v) : v \in {expression}} : TRUE is   *)
(* e of that value.                                                        *)

\* x + y
Add(x, y) ==
    CHOOSE sum \in
        {IF IsNaN(a) \/ IsNaN(b) THEN NaN
         ELSE IF IsInfinite(a) /\ IsInfinite(b) THEN (IF a.num = b.num THEN a ELSE NaN)
         ELSE IF IsInfinite(a) THEN a
         ELSE IF IsInfinite(b) THEN b
         ELSE Fraction(a.num * b.den + b.num * a.den, a.den * b.den) : a \in {x}, b \in {y}} : TRUE

\* x - y
Sub(x, y) == Add(x, CHOOSE negated \in {[num |-> -b.num, den |-> b.den] : b \in {y}} : TRUE)

\* x * y
Mul(x, y) ==
    CHOOSE product \in
        {IF IsNaN(a) \/ IsNaN(b) THEN NaN
         ELSE IF IsInfinite(a) \/ IsInfinite(b)
              THEN (IF Sign(a) * Sign(b) = 0 THEN NaN ELSE [num |-> Sign(a) * Sign(b), den |-> 0])
         ELSE Fraction(a.num * b.num, a.den * b.den) : a \in {x}, b \in {y}} : TRUE

\* x / y
Div(x, y) ==
    CHOOSE quotient \in
        {IF IsNaN(a) \/ IsNaN(b) THEN NaN
         ELSE IF IsInfinite(a) /\ IsInfinite(b) THEN NaN
         ELSE IF IsInfinite(a) THEN [num |-> (IF b.num < 0 THEN -a.num ELSE a.num), den |-> 0]
         ELSE IF IsInfinite(b) THEN Finite(0)
         ELSE IF b.num = 0 THEN (IF a.num = 0 THEN NaN ELSE [num |-> Sign(a), den |-> 0])
         ELSE IF b.num < 0 THEN Fraction((-a.num) * b.den, a.den * (-b.num))
         ELSE Fraction(a.num * b.den, a.den * b.num) : a \in {x}, b \in {y}} : TRUE

\* x < y, false when either is NaN
Less(x, y) ==
    /\ ~IsNaN(x) /\ ~IsNaN(y)
    /\ IF IsInfinite(x) /\ IsInfinite(y) THEN x.num < y.num
       ELSE IF IsInfinite(x) THEN x.num < 0
       ELSE IF IsInfinite(y) THEN y.num > 0
       ELSE x.num * y.den < y.num * x.den

\* x <= y, false when either is NaN
LessEq(x, y) == Less(x, y) \/ (~IsNaN(x) /\ x = y)

Digits == <<"0", "1", "2", "3", "4", "5", "6", "7", "8", "9">>
DigitSet == {Digits[i] : i \in 1..10}
DigitVal(c) == (CHOOSE i \in 1..10 : Digits[i] = c) - 1

RECURSIVE ParseDigits(_)
ParseDigits(s) ==
    IF s = <<>> THEN 0
    ELSE ParseDigits(SubSeq(s, 1, Len(s) - 1)) * 10 + DigitVal(s[Len(s)])

AllDigits(s) == \A i \in 1..Len(s) : s[i] \in DigitSet

\* Number(string): the empty string is 0, a decimal integer is its value, "Infinity" is
\* Infinity, anything else NaN
ParseNumber(s) ==
    IF s = <<>> THEN Finite(0)
    ELSE IF s = <<"I", "n", "f", "i", "n", "i", "t", "y">> THEN Infinity
    ELSE IF AllDigits(s) THEN Finite(ParseDigits(s))
    ELSE IF s[1] = "-" /\ Len(s) > 1 /\ AllDigits(Tail(s)) THEN Finite(0 - ParseDigits(Tail(s)))
    ELSE NaN

\* Number(cell)
NumberOf(v) ==
    CASE v.t = "num" -> v.n
      [] v.t = "str" -> ParseNumber(v.s)
      [] v.t = "null" -> Finite(0)
      [] OTHER -> NaN

RECURSIVE ToDigits(_)
ToDigits(n) ==
    IF n < 10 THEN <<Digits[n + 1]>>
    ELSE ToDigits(n \div 10) \o <<Digits[(n % 10) + 1]>>

(* String(x) of a number.  The numbers of the model are integers, not     *)
(* finite, or hundredths (Math.round(x * 100) / 100), which print with at  *)
(* most two decimals and no trailing zero.                                 *)
NumberToString(x) ==
    IF IsNaN(x) THEN <<"N", "a", "N">>
    ELSE IF IsInfinite(x)
         THEN (IF x.num < 0 THEN <<"-">> ELSE <<>>) \o <<"I", "n", "f", "i", "n", "i", "t", "y">>
    ELSE LET magnitude == IF x.num < 0 THEN -x.num ELSE x.num
             hundredths == ((magnitude % x.den) * 100) \div x.den
         IN (IF x.num < 0 THEN <<"-">> ELSE <<>>)
            \o ToDigits(magnitude \div x.den)
            \o (IF hundredths = 0 THEN <<>>
                ELSE <<".", Digits[(hundredths \div 10) + 1]>>
                     \o (IF hundredths % 10 = 0 THEN <<>> ELSE <<Digits[(hundredths % 10) + 1]>>))

\* String(cell)
StringOf(v) ==
    CASE v.t = "num" -> NumberToString(v.n)
      [] v.t = "str" -> v.s
      [] v.t = "null" -> <<"n", "u", "l", "l">>
      [] OTHER -> <<"u", "n", "d", "e", "f", "i", "n", "e", "d">>

UpperCase == <<"A", "B", "C", "D", "E", "F", "G", "H", "I", "J", "K", "L", "M",
               "N", "O", "P", "Q", "R", "S", "T", "U", "V", "W", "X", "Y", "Z">>
LowerCase == <<"a", "b", "c", "d", "e", "f", "g", "h", "i", "j", "k", "l", "m",
               "n", "o", "p", "q", "r", "s", "t", "u", "v", "w", "x", "y", "z">>
LowerChar(c) ==
    IF \E i \in 1..Len(UpperCase) : UpperCase[i] = c
    THEN LowerCase[CHOOSE i \in 1..Len(UpperCase) : UpperCase[i] = c]
    ELSE c
ToLowerCase(s) == [i \in 1..Len(s) |-> LowerChar(s[i])]
UpperChar(c) ==
    IF \E i \in 1..Len(LowerCase) : LowerCase[i] = c
    THEN UpperCase[CHOOSE i \in 1..Len(LowerCase) : LowerCase[i] = c]
    ELSE c

\* haystack.includes(needle)
Includes(hay, needle) ==
    \E k \in 0..(Len(hay) - Len(needle)) :
        \A i \in 1..Len(needle) : hay[k + i] = needle[i]

\* a == b for two cells that are numbers or strings
LooseEquals(a, b) ==
    CASE a.t = "num" /\ b.t = "num" -> ~IsNaN(a.n) /\ a.n = b.n
      [] a.t = "str" /\ b.t = "str" -> a.s = b.s
      [] a.t = "num" /\ b.t = "str" -> ~IsNaN(a.n) /\ NumberOf(b) = a.n
      [] a.t = "str" /\ b.t = "num" -> ~IsNaN(b.n) /\ NumberOf(a) = b.n
      [] OTHER -> a.t = b.t

\* Object.keys(row), in the order the keys were inserted
ObjectKeys(row) == SelectSeq(Columns, LAMBDA c : row[c].t # "undef")

(* JSON.stringify.  A finite number is written as String writes it, a      *)
(* number that is not finite and null are both written null, a string is   *)
(* written quoted; the keys of a row are written in the order of           *)
(* Object.keys.  The text of a dataset is modelled by what it is made of:  *)
(* per row, per key, the key and the text of its value.                    *)
JSONValue(v) ==
    CASE v.t = "num" /\ v.n.den # 0 -> [json |-> "number", text |-> NumberToString(v.n)]
      [] v.t = "str" -> [json |-> "string", text |-> v.s]
      [] OTHER -> [json |-> "null", text |-> <<>>]

JSONStringify(rows) ==
    [i \in 1..Len(rows) |->
        [k \in 1..Len(ObjectKeys(rows[i])) |->
            [key |-> ObjectKeys(rows[i])[k], value |-> JSONValue(rows[i][ObjectKeys(rows[i])[k]])]]]

----------------------------------------------------------------------------
(* src/utils/dataParser.ts *)

\* a number used as a condition: NaN and 0 are falsy
Truthy(x) == ~IsNaN(x) /\ x.num # 0

RECURSIVE SumTo(_, _)
\* the accumulator of reduce((a, b) => a + b, 0) after n elements
SumTo(s, n) == IF n = 0 THEN Finite(0) ELSE Add(SumTo(s, n - 1), s[n])

\* s.reduce((a, b) => a + b, 0)
SumSeq(s) == CHOOSE sum \in {SumTo(values, Len(values)) : values \in {s}} : TRUE

\* Math.min(...s), Math.max(...s) of a non-empty sequence: NaN when an argument is NaN
MinSeq(s) ==
    CHOOSE min \in
        {IF \E i \in 1..Len(values) : IsNaN(values[i]) THEN NaN
         ELSE CHOOSE x \in {values[i] : i \in 1..Len(values)} :
                 \A j \in 1..Len(values) : LessEq(x, values[j]) : values \in {s}} : TRUE
MaxSeq(s) ==
    CHOOSE max \in
        {IF \E i \in 1..Len(values) : IsNaN(values[i]) THEN NaN
         ELSE CHOOSE x \in {values[i] : i \in 1..Len(values)} :
                 \A j \in 1..Len(values) : LessEq(values[j], x) : values \in {s}} : TRUE

\* line 11: typeof cell === 'number' || !isNaN(Number(cell))
IsNumericCell(v) == v.t = "num" \/ ~IsNaN(NumberOf(v))

\* a CoerceCell that leaves a cell that is no number as NaN
CoerceCell_keepsNaN(v) == NumberOf(v)

\* line 16: typeof cell === 'number' ? cell : Number(cell) || 0
CoerceCell(v) ==
    IF v.t = "num" THEN v.n
    ELSE IF Truthy(NumberOf(v)) THEN NumberOf(v) ELSE Finite(0)

extractNumericalData(data) ==
    IF Len(data) = 0 THEN [columns |-> <<>>, values |-> <<>>]
    ELSE LET firstRow == data[1]
         IN CHOOSE result \in
               {[columns |-> numericalColumns,
                 values |-> [k \in 1..Len(numericalColumns) |->
                               [i \in 1..Len(data) |-> CoerceCell(data[i][numericalColumns[k]])]]] :
                numericalColumns \in
                    {SelectSeq(ObjectKeys(firstRow), LAMBDA key : IsNumericCell(firstRow[key]))}} :
               TRUE

(* One Statistic (lines 30-50).  stdDev is the square root of the number   *)
(* kept in it, avgSquareDiff: Math.sqrt of NaN is NaN, of Infinity         *)
(* Infinity.                                                               *)
columnStatistic(column, values) ==
    CHOOSE statistic \in
        {LET sum == SumSeq(columnValues)
             avg == Div(sum, Finite(Len(columnValues)))
             squareDiffs ==
                 [i \in 1..Len(columnValues) |->
                     Mul(Sub(columnValues[i], avg), Sub(columnValues[i], avg))]
             avgSquareDiff == Div(SumSeq(squareDiffs), Finite(Len(squareDiffs)))
         IN [column |-> column,
             min |-> MinSeq(columnValues),
             max |-> MaxSeq(columnValues),
             avg |-> avg,
             stdDev |-> [sqrtOf |-> avgSquareDiff],
             sum |-> sum] : columnValues \in {values}} : TRUE

(* The result is [isArray, stats]: for no rows the code returns the object  *)
(* {} (line 26), which is not an array; otherwise the array of Statistics.  *)
calculateStatistics(data) ==
    IF Len(data) = 0 THEN [isArray |-> FALSE, stats |-> <<>>]
    ELSE CHOOSE result \in
            {[isArray |-> TRUE,
              stats |-> [k \in 1..Len(ex.columns) |->
                           columnStatistic(ex.columns[k], ex.values[k])]] :
             ex \in {extractNumericalData(data)}} : TRUE

(* prepare3DData.  Math.random() is an input: rnd.y[i] and rnd.z[i] are the *)
(* draws for row i of 'Computed Y' and 'Computed Z', each standing for the  *)
(* number rnd/NoiseLevels in [0, 1).                                        *)

\* line 73: data.map((_, i) => i)
indexAxis(data) == [i \in 1..Len(data) |-> Finite(i - 1)]

\* line 77: usableValues[0].map(v => v * 0.7 + Math.random() * 0.5)
computedY(axis0, rnd) ==
    CHOOSE axis \in
        {[i \in 1..Len(values0) |->
            Add(Mul(values0[i], Fraction(7, 10)),
                Mul(Fraction(rnd.y[i], NoiseLevels), Fraction(5, 10)))] :
         values0 \in {axis0}} : TRUE

\* lines 81-83: (usableValues[0][i] + usableValues[1][i]) / 2 * (0.8 + Math.random() * 0.4)
computedZ(axis0, axis1, rnd) ==
    CHOOSE axis \in
        {[i \in 1..Len(values0) |->
            Mul(Div(Add(values0[i], values1[i]), Finite(2)),
                Add(Fraction(8, 10), Mul(Fraction(rnd.z[i], NoiseLevels), Fraction(4, 10))))] :
         values0 \in {axis0}, values1 \in {axis1}} : TRUE

\* lines 88-94: range ? (v - min) / range * 2 - 1 : 0
normalize(columnValues) ==
    CHOOSE normalized \in
        {LET min == MinSeq(values)
             max == MaxSeq(values)
             range == Sub(max, min)
         IN [i \in 1..Len(values) |->
               IF Truthy(range)
               THEN Sub(Mul(Div(Sub(values[i], min), range), Finite(2)), Finite(1))
               ELSE Finite(0)] : values \in {columnValues}} : TRUE

NoVisualization == [points |-> <<>>, axisLabels |-> <<>>]

\* a prepare3DData that answers no rows with placeholder axes
prepare3DData_placeholder(data, rnd) ==
    [threw |-> FALSE, points |-> <<>>, axisLabels |-> <<"Index", "Computed Y", "Computed Z">>]

(* Lines 65-94: the three axes, normalized.  With fewer than 3 numerical   *)
(* columns the missing axes are computed from the ones before them.        *)
normalizedValues(data, values, rnd) ==
    LET k == Len(values)
    IN CHOOSE normalized \in
          {<<normalize(axis0), normalize(axis1),
             normalize(IF k >= 3 THEN values[3] ELSE computedZ(axis0, axis1, rnd))>> :
           axis0 \in {IF k >= 1 THEN values[1] ELSE indexAxis(data)},
           axis1 \in {IF k >= 2 THEN values[2]
                      ELSE computedY(IF k >= 1 THEN values[1] ELSE indexAxis(data), rnd)}} : TRUE

\* a pointValue that takes the first numerical column whatever their number
pointValue_firstColumn(values, i) == values[1][i]

\* line 102: values.length > 3 ? values[3][i] : values[0][i]
pointValue(values, i) == IF Len(values) > 3 THEN values[4][i] ELSE values[1][i]

(* The result is [threw, points, axisLabels].  values[0][i] of line 102    *)
(* reads a property of undefined when there is no numerical column and at  *)
(* most three (values is then empty): a TypeError, thrown after the axes   *)
(* were synthesized and normalized.                                        *)
prepare3DData(data, rnd) ==
    IF Len(data) = 0 THEN [threw |-> FALSE] @@ NoVisualization
    ELSE CHOOSE result \in
            {LET k == Len(ex.columns)
                 usableColumns ==
                     SubSeq(ex.columns, 1, IF k < 3 THEN k ELSE 3)
                     \o (IF k < 1 THEN <<"Index">> ELSE <<>>)
                     \o (IF k < 2 THEN <<"Computed Y">> ELSE <<>>)
                     \o (IF k < 3 THEN <<"Computed Z">> ELSE <<>>)
             IN IF k = 0 THEN [threw |-> TRUE] @@ NoVisualization
                ELSE CHOOSE returned \in
                        {[threw |-> FALSE,
                          points |-> [i \in 1..Len(data) |->
                                        [x |-> normalized[1][i],
                                         y |-> normalized[2][i],
                                         z |-> normalized[3][i],
                                         value |-> pointValue(ex.values, i)]],
                          axisLabels |-> SubSeq(usableColumns, 1, 3)] :
                         normalized \in {normalizedValues(data, ex.values, rnd)}} : TRUE :
             ex \in {extractNumericalData(data)}} : TRUE

\* the sequences of n draws of Math.random()
Draws(n) == [1..n -> 0..(NoiseLevels - 1)]

(* The draws one call of prepare3DData(data) makes: none with three        *)
(* numerical columns, those of 'Computed Z' with two, both with one.  With *)
(* no numerical column the call throws whatever was drawn, and one draw    *)
(* stands for all.                                                         *)
RandomDraws(data) ==
    LET k == Len(extractNumericalData(data).columns)
        n == Len(data)
        none == [i \in 1..n |-> 0]
    IN IF k = 0 \/ k >= 3 THEN {[y |-> none, z |-> none]}
       ELSE IF k = 2 THEN {[y |-> none, z |-> z] : z \in Draws(n)}
       ELSE {[y |-> y, z |-> z] : y \in Draws(n), z \in Draws(n)}

----------------------------------------------------------------------------
(* src/hooks/useDataProcessing.ts: the filtered view (useMemo, lines 69-133) *)

\* a passesFilter without the null check of line 110
passesFilter_noNullCheck(row, filter) ==
    LET cellValue == row[filter.column]
    IN CASE filter.operator = "equals" -> LooseEquals(cellValue, filter.value)
         [] filter.operator = "notEquals" -> ~LooseEquals(cellValue, filter.value)
         [] filter.operator = "greaterThan" ->
               Less(NumberOf(filter.value), NumberOf(cellValue))
         [] filter.operator = "lessThan" ->
               Less(NumberOf(cellValue), NumberOf(filter.value))
         [] filter.operator = "contains" ->
               Includes(ToLowerCase(StringOf(cellValue)), ToLowerCase(StringOf(filter.value)))
         [] OTHER -> TRUE

\* lines 108-125: one filter on one row
passesFilter(row, filter) ==
    LET cellValue == row[filter.column]
    IN IF cellValue.t = "undef" \/ cellValue.t = "null" THEN FALSE
       ELSE CASE filter.operator = "equals" -> LooseEquals(cellValue, filter.value)
              [] filter.operator = "notEquals" -> ~LooseEquals(cellValue, filter.value)
              [] filter.operator = "greaterThan" ->
                    Less(NumberOf(filter.value), NumberOf(cellValue))
              [] filter.operator = "lessThan" ->
                    Less(NumberOf(cellValue), NumberOf(filter.value))
              [] filter.operator = "contains" ->
                    Includes(ToLowerCase(StringOf(cellValue)), ToLowerCase(StringOf(filter.value)))
              [] OTHER -> TRUE

\* a passesAll with filters.some in place of filters.every
passesAll_some(row, fs) == \E k \in 1..Len(fs) : passesFilter(row, fs[k])

\* line 107: filters.every(...)
passesAll(row, fs) == \A k \in 1..Len(fs) : passesFilter(row, fs[k])

(* lines 76-95: for more than IndexThreshold rows and at least one filter,  *)
(* a Map per filtered column from each cell value (by identity of          *)
(* primitives) to the positions, counted from 0, of the rows that hold it. *)
columnIndices(data, fs) ==
    IF Len(data) > IndexThreshold /\ Len(fs) > 0
    THEN [column \in {fs[k].column : k \in 1..Len(fs)} |->
            [value \in {data[i][column] : i \in 1..Len(data)} |->
                LET at == SelectSeq([i \in 1..Len(data) |-> i],
                                    LAMBDA i : data[i][column] = value)
                IN [j \in 1..Len(at) |-> at[j] - 1]]]
    ELSE <<>>

\* a filteredData that answers an equals filter from the index when the index was built
filteredData_byIndex(data, fs) ==
    IF Len(data) = 0 THEN <<>>
    ELSE IF Len(fs) = 0 THEN data
    ELSE LET index == columnIndices(data, fs)
             found(i, filter) ==
                 /\ filter.value \in DOMAIN index[filter.column]
                 /\ \E j \in DOMAIN index[filter.column][filter.value] :
                        index[filter.column][filter.value][j] = i - 1
             passes(i, filter) ==
                 IF Len(data) > IndexThreshold /\ filter.operator = "equals"
                 THEN found(i, filter)
                 ELSE passesFilter(data[i], filter)
             kept == SelectSeq([i \in 1..Len(data) |-> i],
                               LAMBDA i : \A k \in 1..Len(fs) : passes(i, fs[k]))
         IN [j \in 1..Len(kept) |-> data[kept[j]]]

\* a filteredData that collects the passing rows last-first
filteredData_reversed(data, fs) ==
    IF Len(data) = 0 THEN <<>>
    ELSE IF Len(fs) = 0 THEN data
    ELSE LET kept == SelectSeq(data, LAMBDA row : passesAll(row, fs))
         IN [i \in 1..Len(kept) |-> kept[Len(kept) + 1 - i]]

(* The memoized value for the current rawData and filters.  The index the  *)
(* code builds for more than IndexThreshold rows (lines 76-95) is a local  *)
(* that nothing reads; the rows are selected by lines 105-127 either way.  *)
filteredData(data, fs) ==
    IF Len(data) = 0 THEN <<>>
    ELSE IF Len(fs) = 0 THEN data
    ELSE SelectSeq(data, LAMBDA row : passesAll(row, fs))

----------------------------------------------------------------------------
(* src/hooks/useDataProcessing.ts: the state of the hook and its handlers *)

Toast(kind, text) == [kind |-> kind, text |-> text]

\* the argument of processData: an array of rows, or null/undefined
Rows(rows) == [isNull |-> FALSE, rows |-> rows]
NoRows == [isNull |-> TRUE, rows |-> <<>>]

\* no dataParser function was called directly
NoCall == [fn |-> "none", data |-> <<>>, result |-> <<>>]

\* lines 29-34 and 37: the initial values of the useState calls
HookInit ==
    /\ rawData = <<>>
    /\ fileName = ""
    /\ statistics = <<>>
    /\ visualizationData = NoVisualization
    /\ isProcessing = FALSE
    /\ filters = <<>>
    /\ availableColumns = <<>>
    /\ effectPending = FALSE
    /\ timers = <<>>
    /\ toasts = <<>>
    /\ outcome = "init"

\* FileUpload.tsx lines 14-19 and useDataProcessing.ts lines 365-366: no file, an idle cleaner
NoFile == [chosen |-> FALSE, name |-> "", headers |-> <<>>, lines |-> <<>>]
CleanerInit ==
    /\ file = NoFile
    /\ parsedData = <<>>
    /\ showDataCleaner = FALSE
    /\ onDataProcessed = <<>>
    /\ dataCleaner = [isProcessing |-> FALSE, progress |-> 0]
    /\ cleanCalls = <<>>

Init == HookInit /\ parserCall = NoCall /\ CleanerInit

(* React runs the effects a commit queued before it handles the next       *)
(* update, so while the processing effect is queued no other handler's     *)
(* updates come in between.  The large-dataset path of the effect will     *)
(* start one more timer: the model bounds how many wait at once.           *)
HandlerMayRun == ~effectPending
TimerSlotFor(rows) == Len(rows) > LargeDatasetThreshold => Len(timers) < MaxTimers

\* a rejectEmptyData that substitutes an empty result, as C7 is worded
rejectEmptyData_resetsStatistics ==
    /\ toasts' = <<Toast("error", "No data provided for processing")>>
    /\ outcome' = "rejected"
    /\ statistics' = <<>>
    /\ UNCHANGED <<rawData, fileName, visualizationData, isProcessing,
                   filters, availableColumns, effectPending, timers>>

\* lines 46-49: no rows, the call returns after the error toast
rejectEmptyData ==
    /\ toasts' = <<Toast("error", "No data provided for processing")>>
    /\ outcome' = "rejected"
    /\ UNCHANGED <<rawData, fileName, statistics, visualizationData, isProcessing,
                   filters, availableColumns, effectPending, timers>>

\* a storeRows that clears the derived state when it stores the rows
storeRows_clearsResults(rows, name) ==
    /\ rawData' = rows
    /\ fileName' = name
    /\ isProcessing' = TRUE
    /\ availableColumns' = ObjectKeys(rows[1])
    /\ effectPending' = TRUE
    /\ toasts' = <<Toast("info", "Processing records...")>>
    /\ outcome' = "stored"
    /\ statistics' = <<>>
    /\ visualizationData' = NoVisualization
    /\ UNCHANGED <<filters, timers>>

\* a storeRows that starts the new dataset with no filters
storeRows_clearsFilters(rows, name) ==
    /\ rawData' = rows
    /\ fileName' = name
    /\ isProcessing' = TRUE
    /\ availableColumns' = ObjectKeys(rows[1])
    /\ effectPending' = TRUE
    /\ toasts' = <<Toast("info", "Processing records...")>>
    /\ outcome' = "stored"
    /\ filters' = <<>>
    /\ UNCHANGED <<statistics, visualizationData, timers>>

\* lines 51-65: the rows, the label and the columns are stored and the flag is set
storeRows(rows, name) ==
    /\ rawData' = rows
    /\ fileName' = name
    /\ isProcessing' = TRUE
    /\ availableColumns' = ObjectKeys(rows[1])
    /\ effectPending' = TRUE
    /\ toasts' = <<Toast("info", "Processing records...")>>
    /\ outcome' = "stored"
    /\ UNCHANGED <<statistics, visualizationData, filters, timers>>

\* lines 45-66
processData(data, name) ==
    /\ HandlerMayRun
    /\ UNCHANGED <<parserCall, cleanerVars>>
    /\ IF data.isNull \/ Len(data.rows) = 0
       THEN rejectEmptyData
       ELSE /\ TimerSlotFor(data.rows)
            /\ storeRows(data.rows, name)

(* lines 136-149.  The call is debounced: the updater runs 300 ms after    *)
(* the last call, compares with the rows stored at that time, and until    *)
(* then the call has changed nothing; this step is the updater running.    *)
(* Line 141 compares the JSON texts of the stored and the new rows.        *)
updateRawData(newData) ==
    /\ HandlerMayRun
    /\ UNCHANGED <<parserCall, cleanerVars>>
    /\ IF JSONStringify(rawData) # JSONStringify(newData)
       THEN /\ TimerSlotFor(newData)
            /\ rawData' = newData
            /\ isProcessing' = TRUE
            /\ effectPending' = TRUE
            /\ toasts' = <<Toast("info", "Data updated in real-time")>>
            /\ outcome' = "updated"
            /\ UNCHANGED <<fileName, statistics, visualizationData, filters,
                           availableColumns, timers>>
       ELSE /\ toasts' = <<>>
            /\ outcome' = "same"
            /\ UNCHANGED <<rawData, fileName, statistics, visualizationData, isProcessing,
                           filters, availableColumns, effectPending, timers>>

\* an addFilter that appends the filter whether or not the column has one
addFilter_appends(filter) ==
    /\ HandlerMayRun
    /\ UNCHANGED <<parserCall, cleanerVars>>
    /\ filters' = Append(filters, filter)
    /\ toasts' = <<Toast("success", "Filter on " \o filter.column \o " applied")>>
    /\ outcome' = "filter"
    /\ UNCHANGED <<rawData, fileName, statistics, visualizationData, isProcessing,
                   availableColumns, effectPending, timers>>

\* lines 152-164
addFilter(filter) ==
    /\ HandlerMayRun
    /\ UNCHANGED <<parserCall, cleanerVars>>
    /\ LET exists == {i \in 1..Len(filters) : filters[i].column = filter.column}
       IN filters' = IF exists # {}
                     THEN [filters EXCEPT ![CHOOSE i \in exists : \A j \in exists : i <= j] = filter]
                     ELSE Append(filters, filter)
    /\ toasts' = <<Toast("success", "Filter on " \o filter.column \o " applied")>>
    /\ outcome' = "filter"
    /\ UNCHANGED <<rawData, fileName, statistics, visualizationData, isProcessing,
                   availableColumns, effectPending, timers>>

\* a removeFilter that drops the column's predicate and every predicate after it
removeFilter_truncates(column) ==
    /\ HandlerMayRun
    /\ UNCHANGED <<parserCall, cleanerVars>>
    /\ LET at == {i \in 1..Len(filters) : filters[i].column = column}
       IN filters' = IF at = {} THEN filters
                     ELSE SubSeq(filters, 1, (CHOOSE i \in at : \A j \in at : i <= j) - 1)
    /\ toasts' = <<Toast("info", "Filter on " \o column \o " removed")>>
    /\ outcome' = "filter"
    /\ UNCHANGED <<rawData, fileName, statistics, visualizationData, isProcessing,
                   availableColumns, effectPending, timers>>

\* lines 167-170
removeFilter(column) ==
    /\ HandlerMayRun
    /\ UNCHANGED <<parserCall, cleanerVars>>
    /\ filters' = SelectSeq(filters, LAMBDA f : f.column # column)
    /\ toasts' = <<Toast("info", "Filter on " \o column \o " removed")>>
    /\ outcome' = "filter"
    /\ UNCHANGED <<rawData, fileName, statistics, visualizationData, isProcessing,
                   availableColumns, effectPending, timers>>

\* lines 173-176
clearFilters ==
    /\ HandlerMayRun
    /\ UNCHANGED <<parserCall, cleanerVars>>
    /\ filters' = <<>>
    /\ toasts' = <<Toast("info", "All filters cleared")>>
    /\ outcome' = "filter"
    /\ UNCHANGED <<rawData, fileName, statistics, visualizationData, isProcessing,
                   availableColumns, effectPending, timers>>

(* lines 219-243 and the catch of lines 244-248: the path for at most       *)
(* LargeDatasetThreshold rows.  setStatistics(stats) of line 223 is         *)
(* overwritten by setStatistics([]) of line 248 when prepare3DData throws.  *)
regularProcessing ==
    LET stats == calculateStatistics(rawData)
    IN IF stats.isArray
       THEN \E visData \in {prepare3DData(rawData, rnd) : rnd \in RandomDraws(rawData)} :
                 IF visData.threw
                 THEN /\ statistics' = <<>>
                      /\ toasts' = <<Toast("error", "Error processing data for visualization")>>
                      /\ outcome' = "caught"
                      /\ UNCHANGED <<visualizationData, timers>>
                 ELSE /\ statistics' = stats.stats
                      /\ visualizationData' =
                            [points |-> visData.points, axisLabels |-> visData.axisLabels]
                      /\ toasts' = <<>>
                      /\ outcome' = "computed"
                      /\ UNCHANGED timers
       ELSE /\ statistics' = <<>>
            /\ toasts' = <<Toast("error", "Error calculating column statistics")>>
            /\ outcome' = "notArray"
            /\ UNCHANGED <<visualizationData, timers>>

(* lines 187-217: the path for more than LargeDatasetThreshold rows.  The   *)
(* statistics of the first batch are set and the callback of lines 201-216  *)
(* is scheduled; it keeps the rawData of this run of the effect.            *)
batchProcessing ==
    LET firstBatch == SubSeq(rawData, 1, BatchSize)
        initialStats == calculateStatistics(firstBatch)
    IN IF initialStats.isArray
       THEN /\ statistics' = initialStats.stats
            /\ toasts' = <<Toast("info", "Processed first batch, continuing in background...")>>
            /\ timers' = Append(timers, rawData)
            /\ outcome' = "batch"
            /\ UNCHANGED visualizationData
       ELSE /\ toasts' = <<>>
            /\ outcome' = "batch"
            /\ UNCHANGED <<statistics, visualizationData, timers>>

(* lines 179-258: the effect on [rawData, isProcessing].  The finally of    *)
(* lines 249-256 clears the flag in the same commit as the results.  The    *)
(* run of the effect that this commit queues in turn finds the flag         *)
(* cleared and does nothing; it is part of this step.                       *)
processingEffect ==
    /\ effectPending
    /\ UNCHANGED <<parserCall, cleanerVars>>
    /\ effectPending' = FALSE
    /\ IF Len(rawData) > 0 /\ isProcessing
       THEN /\ IF Len(rawData) > LargeDatasetThreshold
               THEN batchProcessing
               ELSE regularProcessing
            /\ isProcessing' = FALSE
       ELSE /\ toasts' = <<>>
            /\ outcome' = "skipped"
            /\ UNCHANGED <<statistics, visualizationData, isProcessing, timers>>
    /\ UNCHANGED <<rawData, fileName, filters, availableColumns>>

(* lines 201-216: the callback of the oldest timer, run by the event loop   *)
(* outside any try block.  setStatistics(fullStats) of line 205 stands      *)
(* when prepare3DData throws at line 208: the exception leaves the          *)
(* callback uncaught and lines 209-214 do not run.                          *)
timerCallback ==
    /\ HandlerMayRun
    /\ UNCHANGED <<parserCall, cleanerVars>>
    /\ timers # <<>>
    /\ timers' = Tail(timers)
    /\ LET data == Head(timers)
           fullStats == calculateStatistics(data)
       IN IF fullStats.isArray
          THEN /\ statistics' = fullStats.stats
               /\ \E visData \in {prepare3DData(data, rnd) : rnd \in RandomDraws(data)} :
                        IF visData.threw
                        THEN /\ toasts' = <<>>
                             /\ outcome' = "uncaught"
                             /\ UNCHANGED visualizationData
                        ELSE /\ visualizationData' =
                                   [points |-> visData.points, axisLabels |-> visData.axisLabels]
                             /\ toasts' = <<Toast("success", "Completed processing")>>
                             /\ outcome' = "completed"
          ELSE /\ toasts' = <<>>
               /\ outcome' = "completed"
               /\ UNCHANGED <<statistics, visualizationData>>
    /\ UNCHANGED <<rawData, fileName, isProcessing, filters, availableColumns, effectPending>>

----------------------------------------------------------------------------
(* src/hooks/useDataProcessing.ts lines 364-751: DataCleanerService.  The  *)
(* texts of the model are made of letters, digits, spaces, the marks . ! ? *)
(* and a leading minus sign.  None of them matches the date pattern of     *)
(* line 590, which needs two separators - or /, so no column is of type    *)
(* 'date'.  options.handleOutliers and options.inferMissingValues are      *)
(* false in every call, as in the defaults of lines 383-391: lines 508-510 *)
(* and 535-541 are not reached.                                            *)

\* lines 504 and 582: the value is null, undefined or ""
IsEmptyValue(v) == v.t \in {"null", "undef"} \/ v = Str(<<>>)

\* a cell used as a condition
CellTruthy(v) ==
    CASE v.t = "num" -> Truthy(v.n)
      [] v.t = "str" -> v.s # <<>>
      [] OTHER -> FALSE

\* line 595: /^(true|false|yes|no|y|n|1|0)$/i
BooleanWords ==
    { <<"t", "r", "u", "e">>, <<"f", "a", "l", "s", "e">>, <<"y", "e", "s">>, <<"n", "o">>,
      <<"y">>, <<"n">>, <<"1">>, <<"0">> }

\* lines 580-600
detectColumnType(values) ==
    LET nonNullValues == SelectSeq(values, LAMBDA v : ~IsEmptyValue(v))
        numberCount == Len(SelectSeq(nonNullValues, LAMBDA v : ~IsNaN(NumberOf(v))))
        booleanCount ==
            Len(SelectSeq(nonNullValues, LAMBDA v : ToLowerCase(StringOf(v)) \in BooleanWords))
    IN IF Len(nonNullValues) = 0 THEN "string"
       ELSE IF numberCount * 10 > 7 * Len(nonNullValues) THEN "number"
       ELSE IF booleanCount * 10 > 7 * Len(nonNullValues) THEN "boolean"
       ELSE "string"

\* Math.round(x * 100) / 100
RoundToHundredths(x) ==
    IF x.den = 0 THEN x
    ELSE Fraction((x.num * 200 + x.den) \div (2 * x.den), 100)

\* lines 603-610: the mean of the values that are numbers, rounded to 2 decimals
inferNumericValue(values) ==
    LET numbers == [i \in 1..Len(values) |-> NumberOf(values[i])]
        numericValues == SelectSeq(numbers, LAMBDA x : ~IsNaN(x))
    IN IF Len(numericValues) = 0 THEN Finite(0)
       ELSE RoundToHundredths(Div(SumSeq(numericValues), Finite(Len(numericValues))))

\* lines 638-652
commonTypos ==
    { [typo |-> <<"t", "e", "h">>, fix |-> <<"t", "h", "e">>],
      [typo |-> <<"a", "d", "n">>, fix |-> <<"a", "n", "d">>],
      [typo |-> <<"r", "e", "c", "i", "e", "v", "e">>, fix |-> <<"r", "e", "c", "e", "i", "v", "e">>],
      [typo |-> <<"w", "i", "e", "r", "d">>, fix |-> <<"w", "e", "i", "r", "d">>],
      [typo |-> <<"a", "c", "c", "o", "m", "o", "d", "a", "t", "e">>,
       fix |-> <<"a", "c", "c", "o", "m", "m", "o", "d", "a", "t", "e">>],
      [typo |-> <<"o", "c", "c", "u", "r", "e", "d">>, fix |-> <<"o", "c", "c", "u", "r", "r", "e", "d">>],
      [typo |-> <<"d", "e", "f", "i", "n", "a", "t", "e", "l", "y">>,
       fix |-> <<"d", "e", "f", "i", "n", "i", "t", "e", "l", "y">>],
      [typo |-> <<"a", "l", "o", "t">>, fix |-> <<"a", " ", "l", "o", "t">>],
      [typo |-> <<"s", "e", "p", "e", "r", "a", "t", "e">>, fix |-> <<"s", "e", "p", "a", "r", "a", "t", "e">>],
      [typo |-> <<"t", "o", "m", "m", "o", "r", "o", "w">>, fix |-> <<"t", "o", "m", "o", "r", "r", "o", "w">>],
      [typo |-> <<"p", "a", "y", "e", "d">>, fix |-> <<"p", "a", "i", "d">>],
      [typo |-> <<"u", "n", "t", "i", "l", "l">>, fix |-> <<"u", "n", "t", "i", "l">>],
      [typo |-> <<"e", "x", "p", "l", "a", "i", "n", "a", "t", "i", "o", "n">>,
       fix |-> <<"e", "x", "p", "l", "a", "n", "a", "t", "i", "o", "n">>] }

(* lines 655-665: one word of the text.  The words of the model name no    *)
(* property of Object.prototype ('constructor'), which line 657 would find *)
(* in commonTypos.                                                         *)
fixWord(word) ==
    LET known == {entry \in commonTypos : entry.typo = ToLowerCase(word)}
        fix == (CHOOSE entry \in known : TRUE).fix
    IN IF known = {} THEN word
       ELSE IF word[1] = UpperChar(word[1]) THEN <<UpperChar(fix[1])>> \o Tail(fix)
       ELSE fix

RECURSIVE fixTextTypos(_)
\* lines 635-665: text.split(' ').map(fix one word).join(' ')
fixTextTypos(text) ==
    LET spaces == {i \in 1..Len(text) : text[i] = " "}
        first == CHOOSE i \in spaces : \A j \in spaces : i <= j
    IN IF spaces = {} THEN fixWord(text)
       ELSE fixWord(SubSeq(text, 1, first - 1)) \o <<" ">>
            \o fixTextTypos(SubSeq(text, first + 1, Len(text)))

\* \w of a regular expression
IsWordChar(c) ==
    \/ c \in DigitSet \/ c = "_"
    \/ \E i \in 1..Len(LowerCase) : c = LowerCase[i] \/ c = UpperCase[i]

\* text.trim(), the white space of the model being the space
Trim(text) ==
    LET inked == {i \in 1..Len(text) : text[i] # " "}
    IN IF inked = {} THEN <<>>
       ELSE SubSeq(text, CHOOSE i \in inked : \A j \in inked : i <= j,
                         CHOOSE i \in inked : \A j \in inked : j <= i)

(* lines 668-681: trimmed, runs of white space made one space, and the     *)
(* first word character of the text and after each . ! ? made upper case   *)
(* (/(^\s*\w|[.!?]\s*\w)/g).                                               *)
normalizeText(text) ==
    IF text = <<>> THEN text
    ELSE LET trimmed == Trim(text)
             kept == SelectSeq([i \in 1..Len(trimmed) |-> i],
                               LAMBDA i : ~(trimmed[i] = " " /\ trimmed[i - 1] = " "))
             spaced == [j \in 1..Len(kept) |-> trimmed[kept[j]]]
             IsMark(j) == j >= 1 /\ spaced[j] \in {".", "!", "?"}
             Starts(j) ==
                 /\ IsWordChar(spaced[j])
                 /\ \/ j = 1
                    \/ IsMark(j - 1)
                    \/ j > 2 /\ spaced[j - 1] = " " /\ IsMark(j - 2)
         IN [j \in 1..Len(spaced) |-> IF Starts(j) THEN UpperChar(spaced[j]) ELSE spaced[j]]

(* lines 736-747: a number as it is; else the text without the characters  *)
(* that are no digit, point or minus sign, as a number, 0 when it is none.  *)
standardizeNumber(v) ==
    IF v.t = "num" THEN v
    ELSE LET cleanedStr == SelectSeq(StringOf(v), LAMBDA c : c \in DigitSet \cup {".", "-"})
             parsedNum == ParseNumber(cleanedStr)
         IN IF IsNaN(parsedNum) THEN Num(0) ELSE Number(parsedNum)

(* lines 498-557: the new value of one cell of a column, given the values  *)
(* of the column and its type.  options.handleOutliers and                 *)
(* options.inferMissingValues are false.                                   *)
cleanValue(values, originalValue, columnType, options) ==
    IF IsEmptyValue(originalValue) /\ options.removeNulls
    THEN IF columnType = "number"
         THEN Number(inferNumericValue(SelectSeq(values, LAMBDA v : ~IsEmptyValue(v))))
         ELSE Str(<<>>)
    ELSE IF columnType = "string" /\ originalValue.t = "str" /\ options.fixTypos
    THEN Str(fixTextTypos(originalValue.s))
    ELSE IF columnType = "string" /\ originalValue.t = "str" /\ options.normalizeText
    THEN Str(normalizeText(originalValue.s))
    ELSE IF options.standardizeFormats /\ columnType = "number" /\ CellTruthy(originalValue)
    THEN standardizeNumber(originalValue)
    ELSE originalValue

(* lines 480-575, up to the await of line 575.  rows are the row objects   *)
(* there are, data the positions in rows of the objects the array given    *)
(* holds: data[i][column] = newValue of line 560 writes into the object.   *)
(* The result is the row objects after the loop.                           *)
cleanColumn(rows, data, column, options) ==
    CHOOSE cleaned \in
        {[r \in 1..Len(rows) |->
            IF \E i \in 1..Len(data) : data[i] = r
            THEN [rows[r] EXCEPT ![column] = cleanValue(values, rows[r][column], columnType, options)]
            ELSE rows[r]] :
         values \in {[i \in 1..Len(data) |-> rows[data[i]][column]]},
         columnType \in {detectColumnType([i \in 1..Len(data) |-> rows[data[i]][column]])}} : TRUE

\* lines 462-478: the rows whose JSON text no earlier row has
removeDuplicates(rows, data) ==
    SelectSeq(data, LAMBDA r :
        ~\E i \in 1..Len(data) :
            /\ data[i] < r
            /\ JSONStringify(<<rows[data[i]]>>) = JSONStringify(<<rows[r]>>))

(* FileUpload.tsx lines 95-98: a field of a CSV line becomes a number when *)
(* Number reads one from it (the empty field becomes 0), else it stays the *)
(* text.                                                                   *)
parseField(value) ==
    IF IsNaN(ParseNumber(value)) THEN Str(value) ELSE Number(ParseNumber(value))

(* FileUpload.tsx lines 88-101: one row object per line after the header   *)
(* line, with every header as a key; values[index] || '' reads a field     *)
(* the line does not have as ''.                                           *)
parseRows(headers, lines) ==
    [i \in 1..Len(lines) |->
        [col \in ColumnSet |->
            IF \E k \in 1..Len(headers) : headers[k] = col
            THEN LET k == CHOOSE k \in 1..Len(headers) : headers[k] = col
                 IN parseField(IF k <= Len(lines[i]) THEN lines[i][k] ELSE <<>>)
            ELSE Undef]]

(* FileUpload.tsx lines 67-123, for a file of a supported type that is     *)
(* read without error: the rows are stored and the cleaning dialog is      *)
(* opened.  The model follows one upload.                                  *)
processFile(f) ==
    /\ ~file.chosen
    /\ file' = f
    /\ parsedData' = parseRows(f.headers, f.lines)
    /\ showDataCleaner' = TRUE
    /\ UNCHANGED <<onDataProcessed, dataCleaner, cleanCalls>>
    /\ UNCHANGED <<hookVars, parserCall>>

(* FileUpload.tsx lines 133-139.  The cancel buttons are those of the      *)
(* dialog, which line 152 renders for showDataCleaner with rows and a      *)
(* file.  onDataProcessed receives the array parsedData itself; the model  *)
(* keeps the cells its row objects hold at the call.                       *)
handleCancelCleaning ==
    /\ showDataCleaner /\ Len(parsedData) > 0 /\ file.chosen
    /\ showDataCleaner' = FALSE
    /\ onDataProcessed' = Append(onDataProcessed, [data |-> parsedData, fileName |-> file.name])
    /\ UNCHANGED <<file, parsedData, dataCleaner, cleanCalls>>
    /\ UNCHANGED <<hookVars, parserCall>>

(* A cleanData call: the state of its promise, results.cleanedData as the  *)
(* positions in parsedData of the row objects it holds, the columns, the   *)
(* one whose cleanColumn is awaited, currentStep, totalSteps and the       *)
(* options.                                                                *)
CleanCall(status, cleanedData, columns, column, currentStep, totalSteps, options) ==
    [status |-> status, cleanedData |-> cleanedData, columns |-> columns, column |-> column,
     currentStep |-> currentStep, totalSteps |-> totalSteps, options |-> options]

(* lines 381-443, from the call to the first await.  data is the array     *)
(* given, as the positions in parsedData of its row objects: parsedData    *)
(* itself (DataCleaner.tsx line 120) or an empty array.  Line 411 copies   *)
(* the array, not the row objects; the first cleanColumn runs up to its    *)
(* await within the call.                                                  *)
cleanData(data, options) ==
    /\ showDataCleaner
    /\ Len(cleanCalls) < MaxCalls
    /\ IF Len(data) = 0
       THEN /\ cleanCalls' = Append(cleanCalls, CleanCall("rejected", <<>>, <<>>, 0, 0, 0, options))
            /\ UNCHANGED <<parsedData, dataCleaner>>
       ELSE LET columns == ObjectKeys(parsedData[data[1]])
                cleanedData == IF options.removeDuplicates
                               THEN removeDuplicates(parsedData, data) ELSE data
                currentStep == IF options.removeDuplicates THEN 1 ELSE 0
                totalSteps == Len(columns) + currentStep
            IN IF Len(columns) = 0
               THEN /\ cleanCalls' = Append(cleanCalls,
                           CleanCall("fulfilled", cleanedData, columns, 0, currentStep,
                                     totalSteps, options))
                    /\ dataCleaner' = [isProcessing |-> FALSE, progress |-> 100]
                    /\ UNCHANGED parsedData
               ELSE /\ parsedData' = cleanColumn(parsedData, cleanedData, columns[1], options)
                    /\ dataCleaner' = [isProcessing |-> TRUE,
                                       progress |-> (currentStep * 100) \div totalSteps]
                    /\ cleanCalls' = Append(cleanCalls,
                           CleanCall("pending", cleanedData, columns, 1, currentStep,
                                     totalSteps, options))
    /\ UNCHANGED <<file, showDataCleaner, onDataProcessed>>
    /\ UNCHANGED <<hookVars, parserCall>>

(* lines 442-459: the cleanColumn awaited by call c returns (its timer of  *)
(* line 575 ran).  The step is counted and the next column cleaned up to   *)
(* its await, or the results are returned and the finally of lines 456-459 *)
(* runs.                                                                   *)
cleanColumnReturns(c) ==
    /\ cleanCalls[c].status = "pending"
    /\ LET call == cleanCalls[c]
           currentStep == call.currentStep + 1
       IN IF call.column < Len(call.columns)
          THEN /\ parsedData' = cleanColumn(parsedData, call.cleanedData,
                                            call.columns[call.column + 1], call.options)
               /\ dataCleaner' =
                     [dataCleaner EXCEPT !.progress = (currentStep * 100) \div call.totalSteps]
               /\ cleanCalls' = [cleanCalls EXCEPT ![c].column = call.column + 1,
                                                   ![c].currentStep = currentStep]
          ELSE /\ cleanCalls' = [cleanCalls EXCEPT ![c].status = "fulfilled",
                                                   ![c].currentStep = currentStep]
               /\ dataCleaner' = [isProcessing |-> FALSE, progress |-> 100]
               /\ UNCHANGED parsedData
    /\ UNCHANGED <<file, showDataCleaner, onDataProcessed>>
    /\ UNCHANGED <<hookVars, parserCall>>

----------------------------------------------------------------------------
(* The inputs of the coordinator specification. *)

Row(a, b, c, d) == [col \in ColumnSet |->
                      CASE col = "a" -> a [] col = "b" -> b [] col = "c" -> c [] OTHER -> d]
Rep(row, n) == [i \in 1..n |-> row]

\* three numerical columns
NumRowA == Row(Num(1), Num(2), Num(3), Undef)
NumRowB == Row(Num(3), Num(2), Str(<<"7">>), Undef)
\* two numerical columns: 'Computed Z' is synthesized
TwoNumRow == Row(Num(1), Num(4), Str(<<"x">>), Undef)
\* no numerical column
TextRow == Row(Str(<<"x">>), Str(<<"y">>), Undef, Undef)

(* No rows; one row, LargeDatasetThreshold rows (the last size of the      *)
(* regular path) and one more (the batch path) of a numerical and of a     *)
(* text row; a batch-path dataset whose first batch differs from the rest; *)
(* and a dataset with a synthesized axis.                                  *)
InputDatasets ==
    {<<>>}
    \cup {Rep(r, n) : r \in {NumRowA, TextRow},
                      n \in {1, LargeDatasetThreshold, LargeDatasetThreshold + 1}}
    \cup {Rep(NumRowA, BatchSize) \o Rep(NumRowB, LargeDatasetThreshold + 1 - BatchSize)}
    \cup {<<TwoNumRow, NumRowB>>}

ProcessDataArguments == {NoRows} \cup {Rows(d) : d \in InputDatasets}
FileNames == {"sales.csv", "other.csv"}

Next ==
    \/ \E data \in ProcessDataArguments, name \in FileNames : processData(data, name)
    \/ \E newData \in InputDatasets : updateRawData(newData)
    \/ processingEffect
    \/ timerCallback

Spec == Init /\ [][Next]_vars

(* The event loop runs a queued effect and a due timer callback; nothing   *)
(* makes the user call processData or updateRawData again.                 *)
FairSpec == Spec /\ WF_vars(processingEffect) /\ WF_vars(timerCallback)

----------------------------------------------------------------------------
(* The inputs of the filter specification: the coordinator with the filter  *)
(* setters, on datasets of at most LargeDatasetThreshold rows whose cells   *)
(* cover numbers, numeric and other strings, upper case, null and absent    *)
(* cells in both filtered columns.                                          *)

ExampleRow1 == Row(Num(1), Str(<<"x">>), Undef, Undef)
ExampleRow2 == Row(Num(2), Str(<<"y">>), Undef, Undef)
ExampleRows == <<ExampleRow1, ExampleRow2>>

MixedRows ==
    << Row(Num(5), Undef, Num(5), Num(1)),
       Row(Str(<<"5">>), Str(<<"Y">>), Undef, Undef),
       Row(Null, Num(5), Null, Undef) >>

\* a row on both sides of another
RepeatedRow == Row(Num(2), Str(<<"y">>), Num(0), Num(0))
RepeatedRows == <<RepeatedRow, Row(Num(1), Null, Num(1), Num(0)), RepeatedRow>>

FilterDatasets == {<<>>, ExampleRows, MixedRows, RepeatedRows}

Operators == {"equals", "notEquals", "greaterThan", "lessThan", "contains"}
FilterColumns == {"a", "b"}
(* The predicates the caller sets: every operator on either column with a  *)
(* number, and predicates with a string on the text column.                *)
FilterChoices ==
    {[column |-> c, operator |-> op, value |-> Num(5)] : c \in FilterColumns, op \in Operators}
    \cup {[column |-> "a", operator |-> "greaterThan", value |-> Num(1)]}
    \cup {[column |-> "b", operator |-> op, value |-> Str(<<"y">>)] :
              op \in {"equals", "notEquals", "contains"}}

FilterNext ==
    \/ \E rows \in FilterDatasets : processData(Rows(rows), "data.csv")
    \/ \E newData \in FilterDatasets : updateRawData(newData)
    \/ processingEffect
    \/ \E filter \in FilterChoices : addFilter(filter)
    \/ \E column \in FilterColumns : removeFilter(column)
    \/ clearFilters

FilterSpec == Init /\ [][FilterNext]_vars

(* The hook with filters set while datasets of both sizes are ingested:    *)
(* the immediate and the deferred computation run with filters active.     *)
PersistDatasets ==
    {<<>>, Rep(NumRowA, 1), Rep(NumRowB, LargeDatasetThreshold + 1), Rep(TextRow, 1)}
PersistFilters ==
    {[column |-> "a", operator |-> "greaterThan", value |-> Num(1)],
     [column |-> "b", operator |-> "equals", value |-> Str(<<"y">>)]}

PersistNext ==
    \/ \E rows \in PersistDatasets : processData(Rows(rows), "data.csv")
    \/ \E newData \in PersistDatasets : updateRawData(newData)
    \/ processingEffect
    \/ timerCallback
    \/ \E filter \in PersistFilters : addFilter(filter)
    \/ \E column \in FilterColumns : removeFilter(column)
    \/ clearFilters

PersistSpec == Init /\ [][PersistNext]_vars

(* The hook updated in real time with rows that are the stored ones, rows *)
(* that differ from them in a number, and rows that differ only in cells   *)
(* JSON writes alike.  A CSV field Infinity is read as the number Infinity *)
(* (FileUpload.tsx line 97).                                               *)
InfiniteCellRow == Row(Number(Infinity), Num(2), Undef, Undef)
NullCellRow == Row(Null, Num(2), Undef, Undef)
UpdateDatasets ==
    {<<>>, <<NumRowA>>, <<NumRowB>>, <<NumRowA, NumRowB>>, <<InfiniteCellRow>>, <<NullCellRow>>}

UpdateNext ==
    \/ \E rows \in UpdateDatasets : processData(Rows(rows), "data.csv")
    \/ \E newData \in UpdateDatasets : updateRawData(newData)
    \/ processingEffect
    \/ \E filter \in PersistFilters : addFilter(filter)

UpdateSpec == Init /\ [][UpdateNext]_vars

(* The upload dialog and the cleaner: a CSV file is parsed, cleanData is   *)
(* called on its rows or on no rows, the calls run side by side, and the   *)
(* dialog may be cancelled at any time.  The files: a text column with a   *)
(* typo; a repeated line and a line without its last field; a column of    *)
(* numbers with one text; a header line only.                              *)
CsvFile(name, headers, lines) ==
    [chosen |-> TRUE, name |-> name, headers |-> headers, lines |-> lines]
TypoFile ==
    CsvFile("typo.csv", <<"a", "b">>, << <<<<"1">>, <<"t", "e", "h">>>>, <<<<"2">>, <<"x">>>> >>)
DuplicateFile ==
    CsvFile("duplicate.csv", <<"a", "b">>,
            << <<<<"1">>, <<"x">>>>, <<<<"1">>, <<"x">>>>, <<<<"2">>>> >>)
NumberFile ==
    CsvFile("number.csv", <<"a">>, << <<<<"1">>>>, <<<<"2">>>>, <<<<"3">>>>, <<<<"x">>>> >>)
HeaderOnlyFile == CsvFile("empty.csv", <<"a", "b">>, <<>>)
CleanerFiles == {TypoFile, DuplicateFile, NumberFile, HeaderOnlyFile}

\* lines 383-391: the default options, and options that leave duplicates and typos alone
DefaultOptions ==
    [removeNulls |-> TRUE, removeDuplicates |-> TRUE, normalizeText |-> TRUE,
     fixTypos |-> TRUE, standardizeFormats |-> TRUE]
NormalizeOptions ==
    [removeNulls |-> TRUE, removeDuplicates |-> FALSE, normalizeText |-> TRUE,
     fixTypos |-> FALSE, standardizeFormats |-> FALSE]
CleaningOptions == {DefaultOptions, NormalizeOptions}

\* the array parsedData, as the positions of its row objects, and an empty array
CleanArguments == {<<>>, [i \in 1..Len(parsedData) |-> i]}

CleanerNext ==
    \/ \E f \in CleanerFiles : processFile(f)
    \/ \E data \in CleanArguments, options \in CleaningOptions : cleanData(data, options)
    \/ \E c \in 1..Len(cleanCalls) : cleanColumnReturns(c)
    \/ handleCancelCleaning

CleanerSpec == Init /\ [][CleanerNext]_vars

(* The functions of dataParser.ts called directly, each once on the        *)
(* dataset drawn: no rows, or up to MaxRows rows, copies of one of the     *)
(* rows below followed by copies of another.                               *)
FourNumRow == Row(Num(2), Str(<<"7">>), Num(0), Num(-4))
OneNumRow == Row(Num(3), Str(<<"x">>), Undef, Undef)
InfinityRow == Row(Str(<<"I", "n", "f", "i", "n", "i", "t", "y">>), Null, Str(<<>>), Undef)
ParserRows == {FourNumRow, TwoNumRow, OneNumRow, TextRow, InfinityRow}
ParserDatasets ==
    {<<>>} \cup {Rep(first, i) \o Rep(rest, n - i) :
                    first \in ParserRows, rest \in ParserRows, n \in 1..MaxRows, i \in 1..MaxRows}

ParserInit ==
    /\ HookInit
    /\ CleanerInit
    /\ parserCall \in {[fn |-> "none", data |-> data, result |-> <<>>] : data \in ParserDatasets}

\* the hook is not running
HookIdle == UNCHANGED hookVars

callExtractNumericalData ==
    /\ parserCall.fn = "none"
    /\ parserCall' = [fn |-> "extractNumericalData", data |-> parserCall.data,
                      result |-> extractNumericalData(parserCall.data)]
    /\ HookIdle
    /\ UNCHANGED cleanerVars

callCalculateStatistics ==
    /\ parserCall.fn = "none"
    /\ parserCall' = [fn |-> "calculateStatistics", data |-> parserCall.data,
                      result |-> calculateStatistics(parserCall.data)]
    /\ HookIdle
    /\ UNCHANGED cleanerVars

callPrepare3DData ==
    /\ parserCall.fn = "none"
    /\ \E result \in {prepare3DData(parserCall.data, rnd) : rnd \in RandomDraws(parserCall.data)} :
          parserCall' = [fn |-> "prepare3DData", data |-> parserCall.data, result |-> result]
    /\ HookIdle
    /\ UNCHANGED cleanerVars

ParserNext ==
    \/ callExtractNumericalData
    \/ callCalculateStatistics
    \/ callPrepare3DData

ParserSpec == ParserInit /\ [][ParserNext]_vars

----------------------------------------------------------------------------
(* Claims about the coordinator. *)

HasErrorToast == \E i \in 1..Len(toasts) : toasts[i].kind = "error"
NoWorkPending == ~isProcessing /\ ~effectPending /\ timers = <<>>

\* what prepare3DData can return for the rows, over every draw of Math.random()
Projections(rows) ==
    {[points |-> v.points, axisLabels |-> v.axisLabels] :
        v \in {prepare3DData(rows, rnd) : rnd \in RandomDraws(rows)}}
ProjectionThrows(rows) == \E rnd \in RandomDraws(rows) : prepare3DData(rows, rnd).threw

(* C1: every time the coordinator enters the processing state it           *)
(* eventually returns to idle: isProcessing = TRUE leads to                *)
(* isProcessing = FALSE.                                                   *)
C1_ProcessingReturnsToIdle == isProcessing ~> ~isProcessing

(* C2: a computation started for an earlier dataset never overwrites the   *)
(* results of a later one: once no work is pending, statistics are those   *)
(* of the rows stored last and the points are a projection of those rows   *)
(* (where the projection of those rows exists).                            *)
C2_ResultsAreOfLatestRows ==
    NoWorkPending =>
        /\ statistics = calculateStatistics(rawData).stats
        /\ ~ProjectionThrows(rawData) => visualizationData \in Projections(rawData)

(* C3: the coordinator is idle only when the recomputation is complete:    *)
(* when isProcessing is false no deferred computation for the current rows *)
(* is waiting and statistics are those of all the current rows.            *)
C3_IdleOnlyWhenRecomputed ==
    ~isProcessing =>
        /\ \A i \in 1..Len(timers) : timers[i] # rawData
        /\ statistics = calculateStatistics(rawData).stats

(* C4: every step that leaves the coordinator with new rows stored and     *)
(* their computation not yet committed (processing, the effect queued)     *)
(* leaves the exposed statistics and points as they were.                  *)
C4_StaleButValidWhileProcessing ==
    [][(isProcessing' /\ effectPending')
          => (statistics' = statistics /\ visualizationData' = visualizationData)]_vars

\* C4's case: a second ingestion is in progress and the first one's results are exposed
C4_Witness ==
    /\ isProcessing /\ effectPending
    /\ statistics # <<>>
    /\ visualizationData.points # <<>>
    /\ statistics # calculateStatistics(rawData).stats

(* C5: when the statistics or projection computation has thrown, or the    *)
(* statistics were not an array, the exposed statistics are the empty      *)
(* list, an error notification was raised and isProcessing is false.       *)
C5_FailureResetsAndNotifies ==
    outcome \in {"caught", "uncaught", "notArray"}
        => (statistics = <<>> /\ HasErrorToast /\ ~isProcessing)

(* C6: no exception raised by the ingestion or by the computation it       *)
(* triggers, run at once or in the deferred callback, escapes uncaught.    *)
C6_NoExceptionEscapes == outcome # "uncaught"

(* C7, as claimed: processData with no rows notifies the user and          *)
(* substitutes an empty result: the exposed statistics become the empty    *)
(* list.                                                                   *)
C7_EmptyInputSubstitutesEmptyResult ==
    outcome = "rejected" => (HasErrorToast /\ statistics = <<>>)

(* C7, amended: processData with no rows (an empty array or null) raises   *)
(* an error notification and changes nothing else: the rows, statistics,   *)
(* points and every other field stay those of the previous dataset.        *)
C7_EmptyInputRejectedStateKept ==
    [][outcome' = "rejected"
          => /\ \E i \in 1..Len(toasts') : toasts'[i].kind = "error"
             /\ UNCHANGED <<rawData, fileName, statistics, visualizationData, isProcessing,
                            filters, availableColumns, effectPending, timers>>]_vars

\* C7's case: an empty call was rejected while a dataset's statistics are exposed
C7_Witness == outcome = "rejected" /\ statistics # <<>> /\ rawData # <<>>

----------------------------------------------------------------------------
(* Claims about the filtered view. *)

\* the filtered view the hook returns in the current state
FilteredData == filteredData(rawData, filters)

RECURSIVE IsSubsequence(_, _)
IsSubsequence(s, t) ==
    IF s = <<>> THEN TRUE
    ELSE IF t = <<>> THEN FALSE
    ELSE IF Head(s) = Head(t) THEN IsSubsequence(Tail(s), Tail(t))
    ELSE IsSubsequence(s, Tail(t))

IsMissing(cell) == cell.t \in {"null", "undef"}

(* C8: in every reachable state the filtered view is a subsequence of the  *)
(* current raw rows: its rows are rows of rawData, in rawData's order.     *)
C8_FilteredIsSubsequence == IsSubsequence(FilteredData, rawData)

\* C8's case: while processing, several rows of several are kept and a row between them dropped
C8_Witness ==
    /\ isProcessing
    /\ Len(filters) > 0
    /\ Len(FilteredData) >= 2
    /\ FilteredData[1] # FilteredData[2]
    /\ Len(FilteredData) < Len(rawData)
    /\ FilteredData # SubSeq(rawData, 1, Len(FilteredData))

(* C9: a row is in the filtered view if and only if it passes every active *)
(* predicate: the view under the whole filter set is the rows, in order,   *)
(* that each predicate alone keeps; and the rows {a:1,b:x}, {a:2,b:y}      *)
(* under {a greaterThan 1} and {b equals y} give exactly {a:2,b:y}.        *)
C9_FilterIsConjunction ==
    /\ FilteredData =
          SelectSeq(rawData, LAMBDA row :
              \A k \in 1..Len(filters) : filteredData(<<row>>, <<filters[k]>>) = <<row>>)
    /\ (/\ rawData = ExampleRows
        /\ filters = << [column |-> "a", operator |-> "greaterThan", value |-> Num(1)],
                        [column |-> "b", operator |-> "equals", value |-> Str(<<"y">>)] >>)
          => FilteredData = <<ExampleRow2>>

\* C9's case: the example of the claim
C9_Witness ==
    /\ rawData = ExampleRows
    /\ filters = << [column |-> "a", operator |-> "greaterThan", value |-> Num(1)],
                    [column |-> "b", operator |-> "equals", value |-> Str(<<"y">>)] >>
    /\ FilteredData = <<ExampleRow2>>

(* C10: a row whose cell for an active predicate's column is null or       *)
(* absent is not in the filtered view, whatever the predicate's operator.  *)
C10_MissingCellFailsEveryPredicate ==
    \A i \in 1..Len(rawData) : \A k \in 1..Len(filters) :
        IsMissing(rawData[i][filters[k].column])
            => \A j \in 1..Len(FilteredData) : FilteredData[j] # rawData[i]

\* C10's case: {b notEquals 5} is active, a row has no b, another a null b, and the view keeps a row
C10_Witness ==
    /\ filters = <<[column |-> "b", operator |-> "notEquals", value |-> Num(5)]>>
    /\ \E i \in 1..Len(rawData) : rawData[i]["b"].t \in {"undef", "null"}
    /\ Len(FilteredData) > 0

----------------------------------------------------------------------------
(* Claims about the filter set. *)

OnePredicatePerColumn ==
    \A i, j \in 1..Len(filters) : filters[i].column = filters[j].column => i = j

HasPredicateOn(fs, column) == \E i \in 1..Len(fs) : fs[i].column = column

\* the filter set the contract gives addFilter: the column's predicate replaced in place, or appended
Replaced(fs, filter) ==
    IF HasPredicateOn(fs, filter.column)
    THEN [i \in 1..Len(fs) |-> IF fs[i].column = filter.column THEN filter ELSE fs[i]]
    ELSE fs \o <<filter>>

(* C11: the filter set holds at most one predicate per column in every     *)
(* state, and addFilter on a column that has a predicate replaces it in    *)
(* its position and otherwise appends the new predicate.                   *)
C11_OnePredicatePerColumn ==
    /\ []OnePredicatePerColumn
    /\ [][\A filter \in FilterChoices :
            addFilter(filter) => filters' = Replaced(filters, filter)]_vars

\* C11's case: addFilter on b has just run and b's predicate is first of two: it was replaced in place
C11_Witness ==
    /\ toasts = <<Toast("success", "Filter on b applied")>>
    /\ Len(filters) = 2
    /\ filters[1].column = "b"
    /\ filters[2].column = "a"

RECURSIVE Without(_, _)
\* the filter set the contract gives removeFilter: the predicates on other columns, in their order
Without(fs, column) ==
    IF fs = <<>> THEN <<>>
    ELSE IF Head(fs).column = column THEN Without(Tail(fs), column)
    ELSE <<Head(fs)>> \o Without(Tail(fs), column)

(* C12: removeFilter(column) removes the predicate on the column and       *)
(* leaves the others and their order, and leaves the filter set as it is   *)
(* when the column has no predicate; clearFilters leaves the filter set    *)
(* empty; no addFilter, removeFilter or clearFilters step changes the raw  *)
(* rows, the statistics, the points or the processing flag.                *)
C12_RemoveAndClearFrame ==
    [][/\ \A column \in FilterColumns :
            removeFilter(column)
                => /\ filters' = Without(filters, column)
                   /\ ~HasPredicateOn(filters, column) => filters' = filters
       /\ clearFilters => filters' = <<>>
       /\ outcome' = "filter"
            => UNCHANGED <<rawData, statistics, visualizationData, isProcessing>>]_vars

\* C12's case: removeFilter on a has just run, b's predicate is left, and a dataset's results are exposed
C12_Witness ==
    /\ toasts = <<Toast("info", "Filter on a removed")>>
    /\ Len(filters) = 1
    /\ filters[1].column = "b"
    /\ statistics # <<>>
    /\ visualizationData.points # <<>>

(* C13: no processData, updateRawData, processing-effect or deferred       *)
(* callback step changes the filter set: the filters set before a dataset  *)
(* is replaced are the filters after it.                                   *)
C13_FiltersPersist ==
    [][(\/ \E rows \in PersistDatasets : processData(Rows(rows), "data.csv")
        \/ \E newData \in PersistDatasets : updateRawData(newData)
        \/ processingEffect
        \/ timerCallback)
          => filters' = filters]_vars

\* C13's case: the deferred computation of a large dataset has just run with two filters set
C13_Witness ==
    /\ outcome = "completed"
    /\ Len(rawData) > LargeDatasetThreshold
    /\ Len(filters) = 2

RECURSIVE PlainEvaluation(_, _)
\* the rows kept when each row is filtered as a dataset of its own, below the index threshold
PlainEvaluation(data, fs) ==
    IF data = <<>> THEN <<>>
    ELSE filteredData(<<Head(data)>>, fs) \o PlainEvaluation(Tail(data), fs)

(* C14: with more than IndexThreshold rows and at least one filter (the     *)
(* path that builds the index) the filtered view is the plain evaluation   *)
(* of the filters row by row; with no filter the filtered view is the raw  *)
(* rows, in their order.                                                   *)
C14_FastPathsKeepResult ==
    /\ (Len(rawData) > IndexThreshold /\ Len(filters) > 0)
          => FilteredData = PlainEvaluation(rawData, filters)
    /\ Len(filters) = 0 => FilteredData = rawData

\* C14's case: the index path with an equals filter that a string cell passes by coercion
C14_Witness ==
    /\ Len(rawData) > IndexThreshold
    /\ filters = <<[column |-> "a", operator |-> "equals", value |-> Num(5)]>>
    /\ \E i \in 1..Len(FilteredData) : FilteredData[i]["a"] = Str(<<"5">>)
    /\ Len(FilteredData) < Len(rawData)

----------------------------------------------------------------------------
(* Claims about dataParser.ts. *)

Called(fn) == parserCall.fn = fn

(* C15: calculateStatistics of no rows returns an empty list: an array of  *)
(* length zero.                                                            *)
C15_EmptyDatasetGivesEmptyList ==
    (Called("calculateStatistics") /\ parserCall.data = <<>>)
        => (parserCall.result.isArray /\ Len(parserCall.result.stats) = 0)

(* C16: prepare3DData of no rows returns no points and no axis labels.     *)
C16_EmptyDatasetGivesNoPoints ==
    (Called("prepare3DData") /\ parserCall.data = <<>>)
        => /\ ~parserCall.result.threw
           /\ parserCall.result.points = <<>>
           /\ parserCall.result.axisLabels = <<>>

\* C16's case: prepare3DData was called with no rows
C16_Witness == Called("prepare3DData") /\ parserCall.data = <<>>

\* Math.sqrt(x) >= 0: x is a number that is not negative
SqrtIsNonNegative(stdDev) == LessEq(Finite(0), stdDev.sqrtOf)

(* C17: every statistics entry of a non-empty dataset has min <= avg <= max *)
(* and stdDev >= 0.                                                        *)
C17_StatisticsOrdered ==
    (Called("calculateStatistics") /\ parserCall.data # <<>>)
        => \A k \in 1..Len(parserCall.result.stats) :
              LET stat == parserCall.result.stats[k]
              IN /\ LessEq(stat.min, stat.avg)
                 /\ LessEq(stat.avg, stat.max)
                 /\ SqrtIsNonNegative(stat.stdDev)

InUnitRange(x) == LessEq(Finite(-1), x) /\ LessEq(x, Finite(1))

(* C18: every point prepare3DData returns for a non-empty dataset has x, y *)
(* and z in [-1, 1], whatever Math.random() returned.                      *)
C18_PointsNormalized ==
    (Called("prepare3DData") /\ parserCall.data # <<>> /\ ~parserCall.result.threw)
        => \A i \in 1..Len(parserCall.result.points) :
              LET point == parserCall.result.points[i]
              IN InUnitRange(point.x) /\ InUnitRange(point.y) /\ InUnitRange(point.z)

\* the labels the contract gives: the first numerical columns, then the synthesized ones
ExpectedAxisLabels(data) ==
    LET columns == extractNumericalData(data).columns
        real == SubSeq(columns, 1, IF Len(columns) < 3 THEN Len(columns) ELSE 3)
        synthesized == <<"Index", "Computed Y", "Computed Z">>
    IN real \o SubSeq(synthesized, Len(real) + 1, 3)

(* C19: prepare3DData of a non-empty dataset returns exactly 3 axis        *)
(* labels, the first numerical columns followed by 'Index', 'Computed Y',  *)
(* 'Computed Z' for the missing axes; one numerical column and 3 rows give *)
(* [column, 'Computed Y', 'Computed Z'] and 3 points.                      *)
C19_ThreeAxisLabels ==
    (Called("prepare3DData") /\ parserCall.data # <<>>)
        => /\ ~parserCall.result.threw
           /\ Len(parserCall.result.axisLabels) = 3
           /\ parserCall.result.axisLabels = ExpectedAxisLabels(parserCall.data)
           /\ parserCall.data = Rep(OneNumRow, 3)
                 => /\ parserCall.result.axisLabels = <<"a", "Computed Y", "Computed Z">>
                    /\ Len(parserCall.result.points) = 3

(* C20: whenever the coordinator is idle after an ingestion, the exposed   *)
(* points are one per row of the current raw rows: a projection of the     *)
(* current rows.                                                           *)
C20_PointsOfCurrentRows ==
    (~isProcessing /\ ~effectPending /\ rawData # <<>>)
        => /\ Len(visualizationData.points) = Len(rawData)
           /\ ~ProjectionThrows(rawData) => visualizationData \in Projections(rawData)

(* C21: in every state after an ingestion, availableColumns is the keys   *)
(* of the first row of the current raw rows, whatever processData and      *)
(* updateRawData calls came before.                                        *)
C21_ColumnsOfFirstRow ==
    rawData # <<>> => availableColumns = ObjectKeys(rawData[1])

(* C22: for a non-empty dataset with no numerical column prepare3DData    *)
(* raises no error and returns one point per row, whose first axis is the  *)
(* normalized row index 0, 1, 2, ...                                       *)
C22_IndexAxisWithoutNumericalColumn ==
    (/\ Called("prepare3DData")
     /\ parserCall.data # <<>>
     /\ extractNumericalData(parserCall.data).columns = <<>>)
        => /\ ~parserCall.result.threw
           /\ Len(parserCall.result.points) = Len(parserCall.data)
           /\ \A i \in 1..Len(parserCall.result.points) :
                 parserCall.result.points[i].x = normalize(indexAxis(parserCall.data))[i]

\* a numeric value as the contract words it: a number, or a non-empty string that parses as one
HoldsNumericValue(cell) ==
    \/ cell.t = "num"
    \/ cell.t = "str" /\ cell.s # <<>> /\ ~IsNaN(ParseNumber(cell.s))

HasEntry(stats, column) == \E k \in 1..Len(stats) : stats[k].column = column

(* C23: a column has a statistics entry if and only if some row of the     *)
(* dataset, whichever it is, holds a numeric value for it; a dataset with  *)
(* no such column yields an empty list.                                    *)
C23_EntryIffSomeRowNumeric ==
    (Called("calculateStatistics") /\ parserCall.data # <<>>)
        => /\ parserCall.result.isArray
           /\ \A column \in ColumnSet :
                 HasEntry(parserCall.result.stats, column)
                    <=> \E i \in 1..Len(parserCall.data) :
                           HoldsNumericValue(parserCall.data[i][column])

\* the column is present in some row, and every value present is null or the empty string
OnlyNullOrEmpty(data, column) ==
    /\ \E i \in 1..Len(data) : data[i][column].t # "undef"
    /\ \A i \in 1..Len(data) :
          \/ data[i][column].t \in {"undef", "null"}
          \/ data[i][column] = Str(<<>>)

Contains(names, column) == \E k \in 1..Len(names) : names[k] = column

(* C24: null values are not considered and an empty string never counts    *)
(* as numeric when a column is classified: a column whose present values   *)
(* are only null or empty strings is not a numerical column, has no        *)
(* statistics entry and is no spatial axis.                                *)
C24_NullAndEmptyAreNotNumeric ==
    \A column \in ColumnSet :
        OnlyNullOrEmpty(parserCall.data, column)
            => /\ Called("extractNumericalData") => ~Contains(parserCall.result.columns, column)
               /\ Called("calculateStatistics") => ~HasEntry(parserCall.result.stats, column)
               /\ Called("prepare3DData") => ~Contains(parserCall.result.axisLabels, column)

\* the value of a cell as a number, a missing or non-numeric cell counted as 0
CountedValue(cell) == IF IsNaN(NumberOf(cell)) THEN Finite(0) ELSE NumberOf(cell)
CountedValues(data, column) == [i \in 1..Len(data) |-> CountedValue(data[i][column])]

(* C25: for each column with an entry, sum is the sum over all rows of the *)
(* cell as a number, missing and non-numeric cells counted as 0; avg is    *)
(* sum divided by the number of rows; min and max are the least and the    *)
(* greatest of those numbers.                                              *)
C25_SumAvgMinMaxOverAllRows ==
    (Called("calculateStatistics") /\ parserCall.data # <<>>)
        => \A k \in 1..Len(parserCall.result.stats) :
              LET stat == parserCall.result.stats[k]
                  counted == CountedValues(parserCall.data, stat.column)
                  rows == 1..Len(parserCall.data)
              IN /\ stat.sum = SumSeq(counted)
                 /\ stat.avg = Div(SumSeq(counted), Finite(Len(parserCall.data)))
                 /\ \E i \in rows : stat.min = counted[i]
                 /\ \A i \in rows : LessEq(stat.min, counted[i])
                 /\ \E i \in rows : stat.max = counted[i]
                 /\ \A i \in rows : LessEq(counted[i], stat.max)

\* C25's case: statistics of a column in which a later row has no number
C25_Witness ==
    /\ Called("calculateStatistics")
    /\ Len(parserCall.data) >= 2
    /\ \E k \in 1..Len(parserCall.result.stats), i \in 1..Len(parserCall.data) :
          /\ IsNaN(NumberOf(parserCall.data[i][parserCall.result.stats[k].column]))
          /\ parserCall.result.stats[k].sum # Finite(0)
          /\ parserCall.result.stats[k].avg # parserCall.result.stats[k].max

\* every row has the same number in the column
IsConstantColumn(data, column) ==
    \A i \in 1..Len(data) : CountedValue(data[i][column]) = CountedValue(data[1][column])

\* the coordinate of a point on the axis-th axis
Coordinate(point, axis) == IF axis = 1 THEN point.x ELSE IF axis = 2 THEN point.y ELSE point.z

(* C26: a column whose values are all identical has stdDev = 0 and, as a   *)
(* spatial axis, the normalized coordinate 0 in every row; the single      *)
(* point of a single-row dataset has every coordinate 0.                   *)
C26_ConstantColumnIsFlat ==
    /\ (Called("calculateStatistics") /\ parserCall.data # <<>>)
          => \A k \in 1..Len(parserCall.result.stats) :
                IsConstantColumn(parserCall.data, parserCall.result.stats[k].column)
                    => parserCall.result.stats[k].stdDev.sqrtOf = Finite(0)
    /\ (Called("prepare3DData") /\ parserCall.data # <<>>)
          => /\ \A axis \in 1..Len(parserCall.result.axisLabels) :
                   (/\ parserCall.result.axisLabels[axis] \in ColumnSet
                    /\ IsConstantColumn(parserCall.data, parserCall.result.axisLabels[axis]))
                       => \A i \in 1..Len(parserCall.result.points) :
                             Coordinate(parserCall.result.points[i], axis) = Finite(0)
             /\ Len(parserCall.data) = 1
                   => /\ Len(parserCall.result.points) = 1
                      /\ \A axis \in 1..3 :
                            Coordinate(parserCall.result.points[1], axis) = Finite(0)

C30_UpdateOnlyWhenRowsDiffer ==
    [][\A newData \in UpdateDatasets :
          updateRawData(newData)
             => IF newData = rawData
                THEN UNCHANGED <<rawData, statistics, visualizationData, filters,
                                 isProcessing, effectPending>>
                ELSE rawData' = newData /\ isProcessing' /\ effectPending']_vars

----------------------------------------------------------------------------
(* Claims about the cleaning dialog and the cleaner. *)

\* the rows of the file as processFile parsed them
OriginalRows == parseRows(file.headers, file.lines)

(* C28: when the cleaning dialog is cancelled, the rows handed to          *)
(* onDataProcessed are the rows as parsed, with their original cells,      *)
(* also after a cleanData run: cleanData and cleanColumn do not modify     *)
(* the row objects of the dataset they were given.                         *)
C28_CancelHandsOverParsedRows ==
    /\ \A k \in 1..Len(onDataProcessed) : onDataProcessed[k].data = OriginalRows
    /\ file.chosen => parsedData = OriginalRows

\* a cleanData call has started and not yet settled
SomeCallPending == \E c \in 1..Len(cleanCalls) : cleanCalls[c].status = "pending"

(* C29: isCurrentlyProcessing() is true whenever at least one cleanData    *)
(* call on the singleton has started and not yet settled, also when two    *)
(* calls overlap and one finishes or throws first; once all calls have     *)
(* settled it is false and the progress is 100.                            *)
C29_ProcessingWhileAnyCallRuns ==
    /\ SomeCallPending => dataCleaner.isProcessing
    /\ (cleanCalls # <<>> /\ ~SomeCallPending)
          => (~dataCleaner.isProcessing /\ dataCleaner.progress = 100)

====
